---- MODULE Spec2Model ----
(***************************************************************************)
(* pysit2stand/processing.py: AccFilter (construction, apply) and          *)
(* process_timestamps, as a state machine over the caller's objects.       *)
(*                                                                         *)
(* Numeric sample values (the output of norm, filtfilt, the wavelet        *)
(* coefficients) are not represented: the signal arrays are carried by     *)
(* their lengths, the coefficient arrays by their length and by whether    *)
(* line 100 overwrote them with zeros.                                     *)
(*                                                                         *)
(* Time points are datetime64[ns] values held in two limbs, whole seconds  *)
(* since the epoch and nanoseconds within the second.                      *)
(***************************************************************************)
EXTENDS Integers, Sequences, FiniteSets, TLC

VARIABLES
    filt,       \* the caller's AccFilter object (exists = FALSE: none)
    filt0,      \* the object as the constructor left it
    ctor,       \* the last AccFilter(...) call: its arguments and its error
    accel,      \* the caller's (N, 3) acceleration array, one entry per row
    accel0,     \* the rows the caller put into accel
    conv_kw,    \* the caller's conv_kw object: None or a dict
    conv_kw0,   \* the contents the caller put into conv_kw
    fret,       \* the outcome of the last filt.apply(accel, fs)
    tret        \* the outcome of the last process_timestamps(...)

vars == <<filt, filt0, ctor, accel, accel0, conv_kw, conv_kw0, fret, tret>>

\* ------------------------------------------------------------------ bounds

\* longest acceleration array the caller loads
MaxData == 8
\* longest timestamp sequence handed to process_timestamps
MaxN == 3

\* ------------------------------------------------------------ python values

None == "None"

EmptyDict == [k \in {} |-> "x"]

\* d[key] = value on a dict
DictSet(d, key, value) ==
    [k \in (DOMAIN d) \cup {key} |-> IF k = key THEN value ELSE d[k]]

\* a caller object that is None or a dict
NoneObj == [none |-> TRUE, d |-> EmptyDict]
DictObj(d) == [none |-> FALSE, d |-> d]

\* ------------------------------------------------- process_timestamps: parts

NsPerSec == 1000 * 1000 * 1000
SecPerDay == 24 * 3600

\* the unit arguments the caller uses
TimeUnits == {None, "s", "ms"}

\* the raw epoch values the caller's timestamps are drawn from
TimeVals == {36000, 72000, 72001, 108000}

\* the dicts the caller builds for conv_kw
CallerDicts ==
    { [unit |-> "ms"], [utc |-> "True"], [unit |-> "s", utc |-> "True"] }

\* (start, end) clock strings 'HH:MM', as <<HH, MM>> pairs
HourPairs ==
    { << <<10, 0>>, <<20, 0>> >>, << <<6, 0>>, <<10, 0>> >>,
      << <<20, 0>>, <<6, 0>> >> }

\* lines 147-154: the dict handed to to_datetime, the caller's object after
\* the statement, and the error raised
ConvKwKeepsCallerUnit(kw, time_units) ==
    IF ~kw.none
    THEN [err |-> "none", used |-> kw.d, caller |-> kw]
    ELSE IF time_units # None
         THEN [err |-> "none", used |-> [unit |-> time_units], caller |-> kw]
         ELSE [err |-> "ValueError", used |-> EmptyDict, caller |-> kw]

ConvKw(kw, time_units) ==
    IF ~kw.none
    THEN IF time_units # None
         THEN [err |-> "none",
               used |-> DictSet(kw.d, "unit", time_units),
               caller |-> DictObj(DictSet(kw.d, "unit", time_units))]
         ELSE [err |-> "none", used |-> kw.d, caller |-> kw]
    ELSE IF time_units # None
         THEN [err |-> "none", used |-> [unit |-> time_units], caller |-> kw]
         ELSE [err |-> "ValueError", used |-> EmptyDict, caller |-> kw]

\* pandas.to_datetime of one epoch number: unit= from the keywords, 'ns' when
\* the keyword is absent
KwUnit(kw) == IF "unit" \in DOMAIN kw THEN kw["unit"] ELSE "ns"

ToTimestamp(v, unit) ==
    IF unit = "s" THEN [s |-> v, ns |-> 0]
    ELSE IF unit = "ms"
         THEN [s |-> v \div 1000, ns |-> (v % 1000) * (1000 * 1000)]
         ELSE [s |-> v \div NsPerSec, ns |-> v % NsPerSec]

\* line 157: element by element, in the order given
to_datetime_sorted(times, kw) ==
    LET ts == [i \in 1..Len(times) |-> ToTimestamp(times[i], KwUnit(kw))]
        Le(a, b) == a.s < b.s \/ (a.s = b.s /\ a.ns <= b.ns)
    IN  IF Len(ts) >= 2 /\ ~Le(ts[1], ts[Len(ts)])
        THEN [i \in 1..Len(ts) |-> ts[Len(ts) + 1 - i]]
        ELSE ts

to_datetime(times, kw) ==
    [i \in 1..Len(times) |-> ToTimestamp(times[i], KwUnit(kw))]

\* timedelta64[ns] arithmetic on two limbs, 0 <= ns < NsPerSec
TdSub(a, b) ==
    IF a.ns >= b.ns
    THEN [s |-> a.s - b.s, ns |-> a.ns - b.ns]
    ELSE [s |-> a.s - b.s - 1, ns |-> a.ns - b.ns + NsPerSec]

TdAdd(a, b) ==
    IF a.ns + b.ns - NsPerSec >= 0
    THEN [s |-> a.s + b.s + 1, ns |-> a.ns + b.ns - NsPerSec]
    ELSE [s |-> a.s + b.s, ns |-> a.ns + b.ns]

\* numpy.diff
diff(ts) ==
    IF Len(ts) < 2 THEN << >>
    ELSE [i \in 1..(Len(ts) - 1) |-> TdSub(ts[i + 1], ts[i])]

RECURSIVE TdSum(_)
TdSum(ds) ==
    IF Len(ds) = 0 THEN [s |-> 0, ns |-> 0]
    ELSE TdAdd(ds[1], TdSum(Tail(ds)))

\* line 160: mean(diff(...)) / timedelta64(1, 's'), the float (s + ns/1e9) / den
\* seconds; den = 0 is the mean of an empty array, NaT, and the float is NaN
SamplingTime(ts) ==
    LET ds == diff(ts)
        tot == TdSum(ds)
    IN  [s |-> tot.s, ns |-> tot.ns, den |-> Len(ds)]

IsNaN(dt) == dt.den = 0

\* DatetimeIndex.indexer_between_time(start, end): include_start and
\* include_end both default to True; the time of day is compared in
\* microseconds; start > end wraps round midnight
ClockMicros(hm) == [s |-> hm[1] * 3600 + hm[2] * 60, us |-> 0]

TimeMicros(t) == [s |-> t.s % SecPerDay, us |-> t.ns \div 1000]

MicrosLe(a, b) == a.s < b.s \/ (a.s = b.s /\ a.us <= b.us)

MicrosLt(a, b) == a.s < b.s \/ (a.s = b.s /\ a.us < b.us)

BetweenTime(t, hours) ==
    LET st == ClockMicros(hours[1])
        en == ClockMicros(hours[2])
        tm == TimeMicros(t)
    IN  IF MicrosLe(st, en)
        THEN MicrosLe(st, tm) /\ MicrosLe(tm, en)
        ELSE MicrosLe(st, tm) \/ MicrosLe(tm, en)

\* mask.nonzero()[0]: the positions that pass, ascending
indexer_between_time(ts, hours) ==
    LET F[k \in 0..Len(ts)] ==
            IF k = 0 THEN << >>
            ELSE IF BetweenTime(ts[k], hours) THEN Append(F[k - 1], k)
                 ELSE F[k - 1]
    IN  F[Len(ts)]

\* a[inds]
Take(a, inds) == [j \in 1..Len(inds) |-> a[inds[j]]]

NoTRet ==
    [status |-> "none", arity |-> 0, timestamps |-> << >>,
     dt |-> [s |-> 0, ns |-> 0, den |-> 0], accel |-> << >>,
     used |-> EmptyDict,
     times |-> << >>, time_units |-> None, kw |-> NoneObj,
     window |-> FALSE, hours |-> << <<0, 0>>, <<0, 0>> >>]

\* lines 156-171, after the keywords are settled
WindowedDt(ts, window, hours) ==
    IF window THEN SamplingTime(Take(ts, indexer_between_time(ts, hours)))
    ELSE SamplingTime(ts)

Dt(ts, window, hours) == SamplingTime(ts)

ReturnArity(window) == IF window THEN 3 ELSE 2

ProcessTimestampsRet(times, acc, time_units, kw, window, hours) ==
    LET k == ConvKw(kw, time_units)
        ts == to_datetime(times, k.used)
        dt == Dt(ts, window, hours)
        hour_inds == indexer_between_time(ts, hours)
    IN  IF k.err # "none"
        THEN [NoTRet EXCEPT !.status = k.err, !.times = times,
                            !.time_units = time_units, !.kw = kw,
                            !.window = window, !.hours = hours]
        ELSE IF window
             THEN [status |-> "ok", arity |-> ReturnArity(window),
                   timestamps |-> Take(ts, hour_inds), dt |-> dt,
                   accel |-> Take(acc, hour_inds), used |-> k.used,
                   times |-> times, time_units |-> time_units, kw |-> kw,
                   window |-> window, hours |-> hours]
             ELSE [status |-> "ok", arity |-> ReturnArity(window),
                   timestamps |-> ts, dt |-> dt,
                   accel |-> << >>, used |-> k.used,
                   times |-> times, time_units |-> time_units, kw |-> kw,
                   window |-> window, hours |-> hours]

\* ---------------------------------------------------------- AccFilter: parts

\* the constructor arguments the caller uses; window is in hundredths of a
\* second (25 is the default 0.25), the frequencies are whole Hz
Methods == {"moving average", "dwt", "bogus"}
LpOrders == {1, 2}
LpCutoffs == {-1, 1, 4}
Windows == {25, 50}
Wavelets == {"haar", "db2", "dmey"}
ExtModes == {"constant"}
ReconLevels == {0, 1, 2, 8}
\* the sampling frequencies handed to apply
FsVals == {-8, 0, 8, 16}

NoObject ==
    [exists |-> FALSE, method |-> "", lp_ord |-> 0, lp_cut |-> 0, window |-> 0,
     dwave |-> "", ext_mode |-> "", recon_level |-> 0]

NoCtor == [called |-> FALSE, err |-> "none", args |-> NoObject]

\* lines 44-58
AccFilterInitAcceptsAny(method, lp_ord, lp_cut, window, dwave, ext_mode, recon_level) ==
    [err |-> "none",
     obj |-> [exists |-> TRUE, method |-> method, lp_ord |-> lp_ord,
              lp_cut |-> lp_cut, window |-> window, dwave |-> dwave,
              ext_mode |-> ext_mode, recon_level |-> recon_level]]

AccFilterInit(method, lp_ord, lp_cut, window, dwave, ext_mode, recon_level) ==
    IF method = "moving average" \/ method = "dwt"
    THEN [err |-> "none",
          obj |-> [exists |-> TRUE, method |-> method, lp_ord |-> lp_ord,
                   lp_cut |-> lp_cut, window |-> window, dwave |-> dwave,
                   ext_mode |-> ext_mode, recon_level |-> recon_level]]
    ELSE [err |-> "ValueError", obj |-> NoObject]

\* line 84: 2 * lp_cut / fs on Python numbers raises ZeroDivisionError for
\* fs = 0; scipy's butter raises ValueError unless 0 < Wn < 1
ButterErr(lp_cut, fs) ==
    IF fs = 0 THEN "ZeroDivisionError"
    ELSE IF fs > 0
         THEN IF 0 < 2 * lp_cut /\ 2 * lp_cut < fs THEN "none" ELSE "ValueError"
         ELSE IF 2 * lp_cut < 0 /\ fs < 2 * lp_cut THEN "none" ELSE "ValueError"

\* line 85: filtfilt pads by padlen = 3 * max(len(a), len(b)) samples at each
\* end and raises ValueError unless the signal is longer than that
PadLen(lp_ord) == 3 * (lp_ord + 1)

FiltfiltErr(lp_ord, n) == IF n <= PadLen(lp_ord) THEN "ValueError" ELSE "none"

\* pywt: the decomposition filter length of a wavelet
DecLen(dwave) ==
    IF dwave = "haar" THEN 2 ELSE IF dwave = "db2" THEN 4 ELSE 62

\* pywt.dwt_max_level: floor(log2(n / (dec_len - 1))), 0 for a short signal
RECURSIVE MaxLevelFrom(_, _)
MaxLevelFrom(n, width) ==
    IF 2 * width <= n THEN 1 + MaxLevelFrom(n, 2 * width) ELSE 0

dwt_max_level(n, dec_len) == MaxLevelFrom(n, dec_len - 1)

\* pywt.dwt_coeff_len for every mode but periodization
DwtCoeffLen(n, dec_len) == (n + dec_len - 1) \div 2

\* the length of the approximation after k single-level transforms
RECURSIVE LevelLen(_, _, _)
LevelLen(n, dec_len, k) ==
    IF k = 0 THEN n ELSE DwtCoeffLen(LevelLen(n, dec_len, k - 1), dec_len)

\* line 89: pywt.wavedec, [cA_L, cD_L, ..., cD_1], indexed from 0 as in Python
wavedec(n, dwave) ==
    LET dl == DecLen(dwave)
        L == dwt_max_level(n, dl)
    IN  [i \in 0..L |->
            [len |-> IF i = 0 THEN LevelLen(n, dl, L)
                     ELSE LevelLen(n, dl, L + 1 - i),
             zero |-> FALSE]]

NumCoefs(coefs) == Cardinality(DOMAIN coefs)

\* lines 92-96
TargetIndexUnclamped(ncoefs, recon_level) == ncoefs - recon_level

TargetIndex(ncoefs, recon_level) ==
    IF (ncoefs - recon_level) < 1 THEN 1 ELSE ncoefs - recon_level

\* line 93
Warned(ncoefs, recon_level) == (ncoefs - recon_level) < 1

\* lines 98-100
ZeroOthers(coefs, ind) ==
    [i \in DOMAIN coefs |->
        IF i >= 1 /\ i # ind THEN [coefs[i] EXCEPT !.zero = TRUE] ELSE coefs[i]]

\* line 102: pywt.waverec, the length of what it returns; a one-array list
\* gives back the approximation; an approximation one longer than the next
\* detail array loses its last element, and pywt.idwt of two arrays of
\* length m has length 2 * m - dec_len + 2
RECURSIVE WaverecFrom(_, _, _, _)
WaverecFrom(coefs, dl, a, i) ==
    IF i > NumCoefs(coefs) - 1 THEN a
    ELSE WaverecFrom(coefs, dl, 2 * coefs[i].len - dl + 2, i + 1)

waverec(coefs, dwave) == WaverecFrom(coefs, DecLen(dwave), coefs[0].len, 1)

\* line 104: int(around(fs * window)), round half to even
Around(num, den) ==
    LET q == num \div den
        r == num % den
    IN  IF 2 * r < den THEN q
        ELSE IF 2 * r > den THEN q + 1
             ELSE IF q % 2 = 0 THEN q ELSE q + 1

NWindow(fs, window) == Around(fs * window, 100)

\* pysit2stand.utility.mov_stats: the moving mean of n samples over a window of
\* w, of length n or n - w + 1 by its boundary convention; a window that is
\* not shorter than the signal (or not positive) is an InvalidInputError
MovStatsErr(n, w) == IF w < 1 \/ w >= n THEN "InvalidInputError" ELSE "none"

MovStatsLens(n, w) == {n, n - w + 1}

\* line 107: macc_r[:macc_f.size]
Slice(len, size) == IF len < size THEN len ELSE size

NoCoefs == [i \in {0} |-> [len |-> 0, zero |-> FALSE]]

NoFRet ==
    [status |-> "none", fs |-> 0, n |-> 0, f_len |-> 0, raw_len |-> 0,
     r_len |-> 0, coefs |-> NoCoefs, ind |-> 0, warned |-> FALSE]

\* lines 80-107; ma_len is the length mov_stats returned
ApplyRet(obj, n, fs, ma_len) ==
    LET fail(e) == [NoFRet EXCEPT !.status = e, !.fs = fs, !.n = n]
        coefs == wavedec(n, obj.dwave)
        ind == TargetIndex(NumCoefs(coefs), obj.recon_level)
        zeroed == ZeroOthers(coefs, ind)
        n_window == NWindow(fs, obj.window)
    IN  IF ButterErr(obj.lp_cut, fs) # "none" THEN fail(ButterErr(obj.lp_cut, fs))
        ELSE IF FiltfiltErr(obj.lp_ord, n) # "none"
             THEN fail(FiltfiltErr(obj.lp_ord, n))
        ELSE IF obj.method = "dwt"
             THEN [status |-> "ok", fs |-> fs, n |-> n, f_len |-> n,
                   raw_len |-> waverec(zeroed, obj.dwave),
                   r_len |-> Slice(waverec(zeroed, obj.dwave), n),
                   coefs |-> zeroed, ind |-> ind,
                   warned |-> Warned(NumCoefs(coefs), obj.recon_level)]
        ELSE IF MovStatsErr(n, n_window) # "none"
             THEN fail(MovStatsErr(n, n_window))
        ELSE [status |-> "ok", fs |-> fs, n |-> n, f_len |-> n,
              raw_len |-> ma_len, r_len |-> Slice(ma_len, n),
              coefs |-> NoCoefs, ind |-> 0, warned |-> FALSE]

\* ------------------------------------------------------------------ actions

Init ==
    /\ filt = NoObject
    /\ filt0 = NoObject
    /\ ctor = NoCtor
    /\ accel = << >>
    /\ accel0 = << >>
    /\ conv_kw = NoneObj
    /\ conv_kw0 = NoneObj
    /\ fret = NoFRet
    /\ tret = NoTRet

\* the caller is sequential: it makes a call, holds the outcome (ctor, fret or
\* tret), and goes on once it has let go of it
Idle == ~ctor.called /\ fret.status = "none" /\ tret.status = "none"

DropResults ==
    /\ ~Idle
    /\ ctor' = NoCtor
    /\ fret' = NoFRet
    /\ tret' = NoTRet
    /\ UNCHANGED <<filt, filt0, accel, accel0, conv_kw, conv_kw0>>

\* the caller loads an (n, 3) array; row i is <<i, i, i>>
NewData ==
    /\ Idle
    /\ \E n \in 0..MaxData :
        /\ accel' = [i \in 1..n |-> <<i, i, i>>]
        /\ accel0' = accel'
    /\ UNCHANGED <<filt, filt0, ctor, conv_kw, conv_kw0, fret, tret>>

\* the caller builds a conv_kw dict, or sets it to None
NewConvKw ==
    /\ Idle
    /\ \E kw \in {NoneObj} \cup {DictObj(d) : d \in CallerDicts} :
        /\ conv_kw' = kw
        /\ conv_kw0' = kw
    /\ UNCHANGED <<filt, filt0, ctor, accel, accel0, fret, tret>>

\* filt = AccFilter(...)
NewAccFilter ==
    /\ Idle
    /\ \E method \in Methods, lp_ord \in LpOrders, lp_cut \in LpCutoffs,
          window \in Windows, dwave \in Wavelets, ext_mode \in ExtModes,
          recon_level \in ReconLevels :
        LET r == AccFilterInit(method, lp_ord, lp_cut, window, dwave,
                               ext_mode, recon_level)
        IN  /\ filt' = r.obj
            /\ filt0' = r.obj
            /\ ctor' = [called |-> TRUE, err |-> r.err,
                        args |-> [exists |-> TRUE, method |-> method,
                                  lp_ord |-> lp_ord, lp_cut |-> lp_cut,
                                  window |-> window, dwave |-> dwave,
                                  ext_mode |-> ext_mode,
                                  recon_level |-> recon_level]]
    /\ UNCHANGED <<accel, accel0, conv_kw, conv_kw0, fret, tret>>

\* filt.apply(accel, fs)
Apply ==
    /\ Idle
    /\ filt.exists
    /\ \E fs \in FsVals :
       \E ma_len \in MovStatsLens(Len(accel), NWindow(fs, filt.window)) :
            fret' = ApplyRet(filt, Len(accel), fs, ma_len)
    /\ UNCHANGED <<filt, filt0, ctor, accel, accel0, conv_kw, conv_kw0, tret>>

\* process_timestamps(times, accel, time_units, conv_kw, window, hours)
ProcessTimestamps ==
    /\ Idle
    /\ Len(accel) <= MaxN
    /\ \E times \in [1..Len(accel) -> TimeVals], time_units \in TimeUnits,
          window \in BOOLEAN, hours \in HourPairs :
            /\ tret' = ProcessTimestampsRet(times, accel, time_units, conv_kw,
                                            window, hours)
            /\ conv_kw' = ConvKw(conv_kw, time_units).caller
    /\ UNCHANGED <<filt, filt0, ctor, accel, accel0, conv_kw0, fret>>

NextF == NewData \/ NewAccFilter \/ Apply \/ DropResults

NextT == NewData \/ NewConvKw \/ ProcessTimestamps \/ DropResults

Next == NextF \/ NextT

SpecF == Init /\ [][NextF]_vars

SpecT == Init /\ [][NextT]_vars

Spec == Init /\ [][Next]_vars

\* ------------------------------------------------------------------- claims

\* what apply did when it got as far as the reconstruction of line 87
ReachedReconstruction ==
    /\ fret.status # "none"
    /\ ButterErr(filt.lp_cut, fret.fs) = "none"
    /\ FiltfiltErr(filt.lp_ord, fret.n) = "none"

\* C1: whenever apply returns, both returned sequences have length N, the
\* number of rows of the input, whatever length the reconstruction had
\* before line 107 cut it.
C1_BothLengthN ==
    fret.status = "ok" => (fret.f_len = fret.n /\ fret.r_len = fret.n)

\* C2: a construction with a method other than 'moving average' and 'dwt'
\* ends in ValueError and leaves no object; with one of the two it succeeds
\* whatever the other arguments are, and every field of the object is the
\* argument given.
C2_ConstructionValidatesMethodOnly ==
    ctor.called =>
        IF ctor.args.method \in {"moving average", "dwt"}
        THEN /\ ctor.err = "none"
             /\ filt.exists
             /\ filt.method = ctor.args.method
             /\ filt.lp_ord = ctor.args.lp_ord
             /\ filt.lp_cut = ctor.args.lp_cut
             /\ filt.window = ctor.args.window
             /\ filt.dwave = ctor.args.dwave
             /\ filt.ext_mode = ctor.args.ext_mode
             /\ filt.recon_level = ctor.args.recon_level
        ELSE ctor.err = "ValueError" /\ ~filt.exists

\* C2 witness: the constructor was called with 'bogus' and was refused.
C2_Rejected ==
    ctor.called /\ ctor.args.method = "bogus" /\ ctor.err = "ValueError"

\* C3: in the DWT branch with a positive reconstruction_level the step does
\* not fail; with L detail bands the target index is L + 1 - level when that
\* is at least 1 and 1 (with the notice printed) when it is not; afterwards
\* band 0 and the band at the target index are as wavedec returned them and
\* every other detail band is zeros.
C3_ClampAndZeroing ==
    (ReachedReconstruction /\ filt.method = "dwt" /\ filt.recon_level >= 1) =>
        LET L == NumCoefs(fret.coefs) - 1
            target == L + 1 - filt.recon_level
        IN  /\ fret.status = "ok"
            /\ fret.ind = (IF target >= 1 THEN target ELSE 1)
            /\ fret.warned <=> (target < 1)
            /\ \A i \in 0..L :
                    fret.coefs[i].zero <=> (i >= 1 /\ i # fret.ind)

\* C3 witness: a level far above the depth of a three-level decomposition was
\* clamped, and the two finer detail bands were zeroed.
C3_Clamped ==
    /\ fret.status = "ok"
    /\ filt.method = "dwt"
    /\ filt.recon_level > NumCoefs(fret.coefs)
    /\ NumCoefs(fret.coefs) = 4
    /\ fret.warned
    /\ fret.coefs[2].zero /\ fret.coefs[3].zero /\ ~fret.coefs[1].zero

\* C4: apply ends in ValueError, the configuration error of this code,
\* whenever fs is not positive or the cutoff is at or above fs / 2.
C4_RejectsBadRates ==
    (fret.status # "none" /\ (fret.fs <= 0 \/ 2 * filt.lp_cut >= fret.fs)) =>
        fret.status = "ValueError"

\* C5: process_timestamps ends in ValueError when time_units and conv_kw are
\* both None; when time_units is given the call goes on to parse, and the
\* keywords handed to to_datetime carry unit = time_units, whatever unit the
\* caller's conv_kw held.
C5_UnitResolution ==
    tret.status # "none" =>
        /\ (tret.kw.none /\ tret.time_units = None) =>
                tret.status = "ValueError"
        /\ tret.time_units # None =>
                /\ tret.status = "ok"
                /\ "unit" \in DOMAIN tret.used
                /\ tret.used["unit"] = tret.time_units

\* C5 witness: the caller's dict held another unit than the one given.
C5_Overrode ==
    /\ tret.status = "ok"
    /\ ~tret.kw.none
    /\ "unit" \in DOMAIN tret.kw.d
    /\ tret.time_units # None
    /\ tret.kw.d["unit"] # tret.time_units

\* the time of day is at or after start and before end
ClockInHalfOpenRange(t, hours) ==
    /\ MicrosLe(ClockMicros(hours[1]), TimeMicros(t))
    /\ MicrosLt(TimeMicros(t), ClockMicros(hours[2]))

\* the positions of ts whose time of day is in [start, end), ascending
HalfOpenPositions(ts, hours) ==
    LET F[k \in 0..Len(ts)] ==
            IF k = 0 THEN << >>
            ELSE IF ClockInHalfOpenRange(ts[k], hours) THEN Append(F[k - 1], k)
                 ELSE F[k - 1]
    IN  F[Len(ts)]

\* C6: with window true the call returns exactly the samples whose time of
\* day t has start <= t < end, in input order, and the acceleration rows at
\* the same positions.
C6_WindowHalfOpen ==
    (tret.status = "ok" /\ tret.window) =>
        LET ts == [i \in 1..Len(tret.times) |->
                        ToTimestamp(tret.times[i], KwUnit(tret.used))]
            pos == HalfOpenPositions(ts, tret.hours)
        IN  /\ Len(tret.timestamps) = Len(pos)
            /\ Len(tret.accel) = Len(pos)
            /\ \A j \in 1..Len(pos) :
                    /\ tret.timestamps[j] = ts[pos[j]]
                    /\ tret.accel[j] = accel0[pos[j]]

\* C7: with window false the call returns two values, all N parsed
\* timestamps in input order and the sampling time; the acceleration is not
\* among them and the caller's array is as the caller left it.
C7_UnwindowedReturn ==
    (tret.status = "ok" /\ ~tret.window) =>
        /\ tret.arity = 2
        /\ Len(tret.timestamps) = Len(tret.times)
        /\ \A i \in 1..Len(tret.times) :
                tret.timestamps[i] =
                    ToTimestamp(tret.times[i], KwUnit(tret.used))
        /\ tret.accel = << >>
        /\ accel = accel0

\* C7 witness: an unwindowed call on timestamps given out of order.
C7_UnsortedInput ==
    /\ tret.status = "ok"
    /\ ~tret.window
    /\ Len(tret.times) >= 2
    /\ tret.times[1] > tret.times[2]

\* the raw values are equally spaced by d
FixedSpacing(times, d) ==
    \A i \in 1..(Len(times) - 1) : times[i + 1] - times[i] = d

\* C8: the sampling time returned is the mean of the successive differences
\* of all N parsed timestamps, that is (last - first) / (N - 1), with or
\* without windowing and whatever the window bounds; for N >= 2 timestamps
\* in seconds spaced by d it is d.
C8_SamplingTimeOfFullSequence ==
    (tret.status = "ok" /\ Len(tret.times) >= 2) =>
        LET n == Len(tret.times)
            first == ToTimestamp(tret.times[1], KwUnit(tret.used))
            last == ToTimestamp(tret.times[n], KwUnit(tret.used))
        IN  /\ tret.dt.den = n - 1
            /\ [s |-> tret.dt.s, ns |-> tret.dt.ns] = TdSub(last, first)
            /\ (KwUnit(tret.used) = "s"
                    /\ FixedSpacing(tret.times, tret.times[2] - tret.times[1])) =>
                    /\ tret.dt.s = (tret.times[2] - tret.times[1]) * tret.dt.den
                    /\ tret.dt.ns = 0

\* C8 witness: three timestamps in seconds, equally spaced, of which the
\* window kept fewer than it was given.
C8_WindowedFixedSpacing ==
    /\ tret.status = "ok"
    /\ tret.window
    /\ Len(tret.times) = 3
    /\ KwUnit(tret.used) = "s"
    /\ tret.times[2] # tret.times[1]
    /\ FixedSpacing(tret.times, tret.times[2] - tret.times[1])
    /\ Len(tret.timestamps) < 3
    /\ Len(tret.timestamps) >= 1

\* C9: no call changes what it was given: the AccFilter fields are those set
\* at construction, and the caller's acceleration array and conv_kw dict
\* hold what the caller put into them.
C9_ArgumentsUntouched ==
    /\ filt = filt0
    /\ accel = accel0
    /\ conv_kw = conv_kw0

\* C10: a call on fewer than two timestamps does not return: it ends in an
\* error, never in a result whose sampling time is NaN.
C10_ShortInputFails ==
    (tret.status # "none" /\ Len(tret.times) < 2) =>
        (~(tret.status = "ok" /\ IsNaN(tret.dt)) /\ tret.status # "ok")

====
